---- MODULE Spec2Model ----
(***************************************************************************)
(* The label-scanning pipeline of server.py: upload validation, the mock   *)
(* OCR service, parse_ingredients_from_text, extract_nutritional_info,     *)
(* analyze_ingredients and the best-effort store of the scan document.     *)
(*                                                                         *)
(* A Python str is a sequence of one-character strings, so that lower(),   *)
(* strip(), title(), split(","), the `in` operator and the regular         *)
(* expressions are computed character by character.  An Optional value is  *)
(* a sequence of length 0 (None) or 1.  A float confidence is an integer   *)
(* number of hundredths.  Wall-clock values (processing_time, created_at)  *)
(* and uuid4 values are left out of the documents.                         *)
(***************************************************************************)
EXTENDS Integers, Sequences, FiniteSets, TLC

\* ------------------------------------------------------------ characters

LowerOf ==
  ("A" :> "a") @@ ("B" :> "b") @@ ("C" :> "c") @@ ("D" :> "d") @@ ("E" :> "e") @@
  ("F" :> "f") @@ ("G" :> "g") @@ ("H" :> "h") @@ ("I" :> "i") @@ ("J" :> "j") @@
  ("K" :> "k") @@ ("L" :> "l") @@ ("M" :> "m") @@ ("N" :> "n") @@ ("O" :> "o") @@
  ("P" :> "p") @@ ("Q" :> "q") @@ ("R" :> "r") @@ ("S" :> "s") @@ ("T" :> "t") @@
  ("U" :> "u") @@ ("V" :> "v") @@ ("W" :> "w") @@ ("X" :> "x") @@ ("Y" :> "y") @@
  ("Z" :> "z")

UpperLetters == DOMAIN LowerOf

LowerLetters == {LowerOf[c] : c \in UpperLetters}

Lower(c) == IF c \in UpperLetters THEN LowerOf[c] ELSE c

Upper(c) == IF c \in LowerLetters THEN CHOOSE u \in UpperLetters : LowerOf[u] = c ELSE c

IsCased(c) == c \in UpperLetters \/ c \in LowerLetters

\* str.isspace() and the regular expressions' \s agree on these characters.
IsSpace(c) == c \in {" ", "\n", "\t"}

IsDigit(c) == c \in {"0", "1", "2", "3", "4", "5", "6", "7", "8", "9"}

\* --------------------------------------------------------------- strings

\* s.lower()
StrLower(s) == [i \in 1..Len(s) |-> Lower(s[i])]

\* s.title(): a cased character is upper-cased when it starts a run of
\* cased characters and lower-cased otherwise.
Title(s) ==
  [i \in 1..Len(s) |->
     IF ~IsCased(s[i]) THEN s[i]
     ELSE IF i > 1 /\ IsCased(s[i - 1]) THEN Lower(s[i]) ELSE Upper(s[i])]

RECURSIVE LStripFrom(_, _)
LStripFrom(s, i) ==
  IF i > Len(s) THEN i
  ELSE IF IsSpace(s[i]) THEN LStripFrom(s, i + 1) ELSE i

RECURSIVE RStripFrom(_, _)
RStripFrom(s, j) ==
  IF j < 1 THEN j
  ELSE IF IsSpace(s[j]) THEN RStripFrom(s, j - 1) ELSE j

\* s.strip()
Strip(s) == SubSeq(s, LStripFrom(s, 1), RStripFrom(s, Len(s)))

\* s[i:].startswith(p), with i counted from 1
MatchesAt(p, s, i) ==
  /\ i >= 1
  /\ i + Len(p) - 1 <= Len(s)
  /\ \A j \in 1..Len(p) : s[i + j - 1] = p[j]

\* s.startswith(p)
StartsWith(s, p) == MatchesAt(p, s, 1)

\* p in s
Contains(s, p) == \E i \in 1..(Len(s) - Len(p) + 1) : MatchesAt(p, s, i)

\* The least member of a non-empty set of positions.
Least(S) == CHOOSE i \in S : \A j \in S : i <= j

\* The pieces of s from start on, cut at each ",".
RECURSIVE SplitFrom(_, _)
SplitFrom(s, start) ==
  LET commas == {i \in start..Len(s) : s[i] = ","}
  IN  IF commas = {} THEN <<SubSeq(s, start, Len(s))>>
      ELSE <<SubSeq(s, start, Least(commas) - 1)>> \o SplitFrom(s, Least(commas) + 1)

\* s.split(",")
SplitComma(s) == SplitFrom(s, 1)

\* [f(x) for x in xs]
MapStrip(xs) == [i \in 1..Len(xs) |-> Strip(xs[i])]

\* ----------------------------------------------- the regular expressions

\* The end of a greedy \s* that starts at i.
RECURSIVE SkipSpaces(_, _)
SkipSpaces(s, i) ==
  IF i <= Len(s) /\ IsSpace(s[i]) THEN SkipSpaces(s, i + 1) ELSE i

\* The end of a greedy \d* that starts at i.
RECURSIVE SkipDigits(_, _)
SkipDigits(s, i) ==
  IF i <= Len(s) /\ IsDigit(s[i]) THEN SkipDigits(s, i + 1) ELSE i

\* re.search of a literal: the least i >= from where p occurs, 0 when none.
FindFrom(p, s, from) ==
  LET found == {i \in from..(Len(s) - Len(p) + 1) : MatchesAt(p, s, i)}
  IN  IF found = {} THEN 0 ELSE Least(found)

HeaderWord == <<"i","n","g","r","e","d","i","e","n","t">>

NutritionWord == <<"n","u","t","r","i","t","i","o","n">>

DoubleLineBreak == <<"\n", "\n">>

\* Mutant: the alternative "nutrition" is missing.
TerminatorWithoutNutritionAt(s, e) ==
  \/ MatchesAt(DoubleLineBreak, s, e)
  \/ e = Len(s) + 1
  \/ e = Len(s) /\ s[e] = "\n"

\* (?:\n\n|nutrition|$) at position e, the position that follows the group.
\* Without re.MULTILINE, $ matches at the end and before a final "\n".
TerminatorAt(s, e) ==
  \/ MatchesAt(DoubleLineBreak, s, e)
  \/ MatchesAt(NutritionWord, s, e)
  \/ e = Len(s) + 1
  \/ e = Len(s) /\ s[e] = "\n"

\* Mutant: a greedy (.+), which runs to the last place the terminator
\* matches at.
GreedyGroupEnd(s, from) ==
  LET ends == {e \in from..(Len(s) + 1) : TerminatorAt(s, e)}
  IN  CHOOSE e \in ends : \A j \in ends : j <= e

\* The lazy (.+?): the group grows one character at a time (re.DOTALL: any
\* character) until the terminator matches after it.
LazyGroupEnd(s, from) == Least({e \in from..(Len(s) + 1) : TerminatorAt(s, e)})

\* ingredients?\s*:?\s*(.+?)(?:\n\n|nutrition|$) searched in s: <<>> when
\* there is no match, else <<group(1)>>.  The search starts at the first
\* occurrence of "ingredient"; s?, \s*, :? and \s* are greedy, and when they
\* consume the rest of the text they backtrack by one character so that the
\* group has its one character (every position between the end of
\* "ingredient" and the greedy end is the end of some way to match them, and
\* the engine tries the later ends first).  A match needs one character
\* after "ingredient"; with it the terminator $ always ends the group.
IngredientsSearch(s) ==
  LET h  == FindFrom(HeaderWord, s, 1)
      p0 == h + Len(HeaderWord)
      p1 == IF p0 <= Len(s) /\ s[p0] = "s" THEN p0 + 1 ELSE p0
      p2 == SkipSpaces(s, p1)
      p3 == IF p2 <= Len(s) /\ s[p2] = ":" THEN p2 + 1 ELSE p2
      p4 == SkipSpaces(s, p3)
      g  == IF p4 <= Len(s) THEN p4 ELSE Len(s)
  IN  IF h = 0 \/ p0 > Len(s) THEN <<>>
      ELSE <<SubSeq(s, g, LazyGroupEnd(s, g + 1) - 1)>>

\* Mutant: the filter keeps the entries of two characters.
RECURSIVE FilterTwoOrMore(_)
FilterTwoOrMore(xs) ==
  IF xs = <<>> THEN <<>>
  ELSE IF Len(Head(xs)) >= 2 THEN <<Head(xs)>> \o FilterTwoOrMore(Tail(xs))
  ELSE FilterTwoOrMore(Tail(xs))

\* [ing for ing in ingredients if len(ing) > 2]
RECURSIVE FilterLong(_)
FilterLong(xs) ==
  IF xs = <<>> THEN <<>>
  ELSE IF Len(Head(xs)) > 2 THEN <<Head(xs)>> \o FilterLong(Tail(xs))
  ELSE FilterLong(Tail(xs))

\* Mutant: a text without the header is taken as a list of ingredients.
parse_ingredients_headerless(text) ==
  LET ingredients_match == IngredientsSearch(StrLower(text))
  IN  IF ingredients_match # <<>>
      THEN FilterLong(MapStrip(SplitComma(ingredients_match[1])))
      ELSE FilterLong(MapStrip(SplitComma(StrLower(text))))

parse_ingredients_from_text(text) ==
  LET ingredients_match == IngredientsSearch(StrLower(text))
  IN  IF ingredients_match # <<>>
      THEN FilterLong(MapStrip(SplitComma(ingredients_match[1])))
      ELSE <<>>

W_calorie == <<"c","a","l","o","r","i","e">>
W_total == <<"t","o","t","a","l">>
W_fat == <<"f","a","t">>
W_saturated == <<"s","a","t","u","r","a","t","e","d">>
W_trans == <<"t","r","a","n","s">>
W_cholesterol == <<"c","h","o","l","e","s","t","e","r","o","l">>
W_sodium == <<"s","o","d","i","u","m">>
W_carbohydrate == <<"c","a","r","b","o","h","y","d","r","a","t","e">>
W_dietary == <<"d","i","e","t","a","r","y">>
W_fiber == <<"f","i","b","e","r">>
W_sugar == <<"s","u","g","a","r">>
W_protein == <<"p","r","o","t","e","i","n">>
U_g == <<"g">>
U_mg == <<"m","g">>

\* The ten patterns, in the dict's order.  prefix: the optional group
\* (?:total\s*)?; words: the literals, \s* between them; plural: a final s?;
\* decimal: the group is (\d+\.?\d*) and not (\d+); unit: the literal that
\* follows the group and \s*, empty when the pattern ends with the group.
patterns ==
  << [key |-> "calories", prefix |-> <<>>, words |-> <<W_calorie>>, plural |-> TRUE,
      decimal |-> FALSE, unit |-> <<>>],
     [key |-> "total_fat", prefix |-> <<>>, words |-> <<W_total, W_fat>>, plural |-> FALSE,
      decimal |-> TRUE, unit |-> U_g],
     [key |-> "saturated_fat", prefix |-> <<>>, words |-> <<W_saturated, W_fat>>,
      plural |-> FALSE, decimal |-> TRUE, unit |-> U_g],
     [key |-> "trans_fat", prefix |-> <<>>, words |-> <<W_trans, W_fat>>, plural |-> FALSE,
      decimal |-> TRUE, unit |-> U_g],
     [key |-> "cholesterol", prefix |-> <<>>, words |-> <<W_cholesterol>>, plural |-> FALSE,
      decimal |-> FALSE, unit |-> U_mg],
     [key |-> "sodium", prefix |-> <<>>, words |-> <<W_sodium>>, plural |-> FALSE,
      decimal |-> FALSE, unit |-> U_mg],
     [key |-> "total_carbs", prefix |-> <<>>, words |-> <<W_total, W_carbohydrate>>,
      plural |-> FALSE, decimal |-> FALSE, unit |-> U_g],
     [key |-> "fiber", prefix |-> <<>>, words |-> <<W_dietary, W_fiber>>, plural |-> FALSE,
      decimal |-> FALSE, unit |-> U_g],
     [key |-> "sugars", prefix |-> W_total, words |-> <<W_sugar>>, plural |-> TRUE,
      decimal |-> TRUE, unit |-> U_g],
     [key |-> "protein", prefix |-> <<>>, words |-> <<W_protein>>, plural |-> FALSE,
      decimal |-> TRUE, unit |-> U_g] >>

\* The literals of a pattern from the k-th on, \s* between them, matched at
\* i: the position after the last one, 0 when they do not match.
RECURSIVE MatchWords(_, _, _, _)
MatchWords(words, k, s, i) ==
  IF ~MatchesAt(words[k], s, i) THEN 0
  ELSE IF k = Len(words) THEN i + Len(words[k])
  ELSE MatchWords(words, k + 1, s, SkipSpaces(s, i + Len(words[k])))

\* (\d+) or (\d+\.?\d*) at q: the position after the group, q when no digit
\* is there.
NumberEnd(pat, s, q) ==
  LET d1 == SkipDigits(s, q)
      d2 == IF d1 <= Len(s) /\ s[d1] = "." THEN d1 + 1 ELSE d1
  IN  IF d1 = q THEN q
      ELSE IF pat.decimal THEN SkipDigits(s, d2) ELSE d1

\* A pattern without its optional prefix, matched at i: <<>> or <<group(1)>>.
\* Each of s?, \s*, :?, \d+, \.? and \d* is greedy, and giving back what one
\* of them consumed leaves a character that nothing after it in the pattern
\* accepts, so the greedy match is the only one there is at i.
MatchCoreAt(pat, s, i) ==
  LET w  == MatchWords(pat.words, 1, s, i)
      p1 == IF pat.plural /\ w <= Len(s) /\ s[w] = "s" THEN w + 1 ELSE w
      p2 == SkipSpaces(s, p1)
      p3 == IF p2 <= Len(s) /\ s[p2] = ":" THEN p2 + 1 ELSE p2
      q  == SkipSpaces(s, p3)
      e  == NumberEnd(pat, s, q)
  IN  IF w = 0 \/ e = q THEN <<>>
      ELSE IF MatchesAt(pat.unit, s, SkipSpaces(s, e)) \/ pat.unit = <<>>
      THEN <<SubSeq(s, q, e - 1)>>
      ELSE <<>>

\* A pattern matched at i: with the optional prefix when it is there and the
\* rest follows, else without it.
MatchAt(pat, s, i) ==
  LET with == IF pat.prefix # <<>> /\ MatchesAt(pat.prefix, s, i)
              THEN MatchCoreAt(pat, s, SkipSpaces(s, i + Len(pat.prefix)))
              ELSE <<>>
  IN  IF with # <<>> THEN with ELSE MatchCoreAt(pat, s, i)

\* re.search(pattern, s): the match at the least position.
PatternSearch(pat, s) ==
  LET found == {i \in 1..Len(s) : MatchAt(pat, s, i) # <<>>}
  IN  IF found = {} THEN <<>> ELSE MatchAt(pat, s, Least(found))

PatternWithKey(key) == CHOOSE k \in 1..Len(patterns) : patterns[k].key = key

extract_nutritional_info(text) ==
  LET s == StrLower(text)
      matched == {k \in 1..Len(patterns) : PatternSearch(patterns[k], s) # <<>>}
  IN  [key \in {patterns[k].key : k \in matched} |->
         PatternSearch(patterns[PatternWithKey(key)], s)[1]]

SAMPLE_INGREDIENTS ==
  <<
    [key |-> <<"w","a","t","e","r">>,
     name |-> <<"W","a","t","e","r">>,
     risk_level |-> "safe",
     description |-> "Essential nutrient, completely safe for consumption",
     sources |-> <<"WHO", "FDA">>],
    [key |-> <<"s","u","g","a","r">>,
     name |-> <<"S","u","g","a","r">>,
     risk_level |-> "safe",
     description |-> "Natural sweetener, safe in moderation",
     sources |-> <<"FDA">>],
    [key |-> <<"s","a","l","t">>,
     name |-> <<"S","a","l","t">>,
     risk_level |-> "safe",
     description |-> "Sodium chloride, essential mineral when consumed in moderation",
     sources |-> <<"FDA">>],
    [key |-> <<"f","l","o","u","r">>,
     name |-> <<"F","l","o","u","r">>,
     risk_level |-> "safe",
     description |-> "Wheat flour, safe for most people except those with celiac disease",
     sources |-> <<"FDA">>],
    [key |-> <<"m","i","l","k">>,
     name |-> <<"M","i","l","k">>,
     risk_level |-> "safe",
     description |-> "Dairy product, safe for lactose-tolerant individuals",
     sources |-> <<"FDA", "USDA">>],
    [key |-> <<"e","g","g","s">>,
     name |-> <<"E","g","g","s">>,
     risk_level |-> "safe",
     description |-> "High-quality protein source, safe when properly cooked",
     sources |-> <<"FDA", "USDA">>],
    [key |-> <<"h","o","n","e","y">>,
     name |-> <<"H","o","n","e","y">>,
     risk_level |-> "safe",
     description |-> "Natural sweetener with antioxidants, safe for most people (not for infants under 1 year)",
     sources |-> <<"FDA", "WHO">>],
    [key |-> <<"o","l","i","v","e"," ","o","i","l">>,
     name |-> <<"O","l","i","v","e"," ","O","i","l">>,
     risk_level |-> "safe",
     description |-> "Healthy fat, rich in monounsaturated fatty acids",
     sources |-> <<"American Heart Association">>],
    [key |-> <<"r","i","c","e">>,
     name |-> <<"R","i","c","e">>,
     risk_level |-> "safe",
     description |-> "Staple grain, safe when cooked properly",
     sources |-> <<"USDA">>],
    [key |-> <<"o","a","t","s">>,
     name |-> <<"O","a","t","s">>,
     risk_level |-> "safe",
     description |-> "Whole grain high in fiber and beneficial for heart health",
     sources |-> <<"FDA", "USDA">>],
    [key |-> <<"c","o","c","o","n","u","t"," ","o","i","l">>,
     name |-> <<"C","o","c","o","n","u","t"," ","O","i","l">>,
     risk_level |-> "safe",
     description |-> "Natural fat, stable for cooking, contains medium-chain triglycerides",
     sources |-> <<"FDA">>],
    [key |-> <<"s","o","d","i","u","m"," ","b","e","n","z","o","a","t","e">>,
     name |-> <<"S","o","d","i","u","m"," ","B","e","n","z","o","a","t","e">>,
     risk_level |-> "caution",
     description |-> "Preservative that may cause allergic reactions in sensitive individuals",
     sources |-> <<"FDA", "European Food Safety Authority">>],
    [key |-> <<"h","i","g","h"," ","f","r","u","c","t","o","s","e"," ","c","o","r","n"," ","s",
             "y","r","u","p">>,
     name |-> <<"H","i","g","h"," ","F","r","u","c","t","o","s","e"," ","C","o","r","n"," ","S",
              "y","r","u","p">>,
     risk_level |-> "caution",
     description |-> "Sweetener linked to obesity and metabolic issues when consumed in excess",
     sources |-> <<"American Heart Association", "Mayo Clinic">>],
    [key |-> <<"m","o","n","o","s","o","d","i","u","m"," ","g","l","u","t","a","m","a","t","e">>,
     name |-> <<"M","o","n","o","s","o","d","i","u","m"," ","G","l","u","t","a","m","a","t","e",
              " ","(","M","S","G",")">>,
     risk_level |-> "caution",
     description |-> "Flavor enhancer that may cause headaches in sensitive individuals",
     sources |-> <<"FDA">>],
    [key |-> <<"a","r","t","i","f","i","c","i","a","l"," ","v","a","n","i","l","l","a">>,
     name |-> <<"A","r","t","i","f","i","c","i","a","l"," ","V","a","n","i","l","l","a">>,
     risk_level |-> "caution",
     description |-> "Synthetic flavoring, generally safe but some prefer natural alternatives",
     sources |-> <<"FDA">>],
    [key |-> <<"p","o","t","a","s","s","i","u","m"," ","s","o","r","b","a","t","e">>,
     name |-> <<"P","o","t","a","s","s","i","u","m"," ","S","o","r","b","a","t","e">>,
     risk_level |-> "caution",
     description |-> "Preservative that may cause skin irritation in sensitive individuals",
     sources |-> <<"FDA">>],
    [key |-> <<"a","s","p","a","r","t","a","m","e">>,
     name |-> <<"A","s","p","a","r","t","a","m","e">>,
     risk_level |-> "caution",
     description |-> "Artificial sweetener, not recommended for people with PKU condition",
     sources |-> <<"FDA", "WHO">>],
    [key |-> <<"a","c","e","s","u","l","f","a","m","e"," ","k">>,
     name |-> <<"A","c","e","s","u","l","f","a","m","e"," ","P","o","t","a","s","s","i","u","m",
              " ","(","A","c","e","-","K",")">>,
     risk_level |-> "caution",
     description |-> "Artificial sweetener, safe within limits but controversial for long-term effects",
     sources |-> <<"FDA">>],
    [key |-> <<"s","a","c","c","h","a","r","i","n">>,
     name |-> <<"S","a","c","c","h","a","r","i","n">>,
     risk_level |-> "caution",
     description |-> "Artificial sweetener, allowed but linked to bladder cancer in animal studies",
     sources |-> <<"FDA", "National Cancer Institute">>],
    [key |-> <<"s","o","d","i","u","m"," ","n","i","t","r","a","t","e">>,
     name |-> <<"S","o","d","i","u","m"," ","N","i","t","r","a","t","e">>,
     risk_level |-> "caution",
     description |-> "Used in processed meats, may form carcinogenic nitrosamines when cooked at high heat",
     sources |-> <<"WHO", "FDA">>],
    [key |-> <<"r","e","d"," ","d","y","e"," ","4","0">>,
     name |-> <<"R","e","d"," ","D","y","e"," ","4","0">>,
     risk_level |-> "banned",
     description |-> "Artificial coloring banned in several countries due to hyperactivity concerns",
     banned_in |-> ("EU" :> TRUE) @@ ("Norway" :> TRUE) @@ ("Austria" :> TRUE),
     sources |-> <<"European Food Safety Authority", "Center for Science in Public Interest">>],
    [key |-> <<"y","e","l","l","o","w"," ","d","y","e"," ","6">>,
     name |-> <<"Y","e","l","l","o","w"," ","D","y","e"," ","6">>,
     risk_level |-> "banned",
     description |-> "Artificial coloring banned in some countries, linked to hyperactivity",
     banned_in |-> ("Norway" :> TRUE) @@ ("Finland" :> TRUE),
     sources |-> <<"European Food Safety Authority">>],
    [key |-> <<"b","h","a">>,
     name |-> <<"B","H","A"," ","(","B","u","t","y","l","a","t","e","d"," ","H","y","d","r","o",
              "x","y","a","n","i","s","o","l","e",")">>,
     risk_level |-> "banned",
     description |-> "Preservative classified as possible carcinogen, banned in some countries",
     banned_in |-> ("EU" :> TRUE) @@ ("Japan" :> TRUE),
     sources |-> <<"International Agency for Research on Cancer">>],
    [key |-> <<"b","h","t">>,
     name |-> <<"B","H","T"," ","(","B","u","t","y","l","a","t","e","d"," ","H","y","d","r","o",
              "x","y","t","o","l","u","e","n","e",")">>,
     risk_level |-> "banned",
     description |-> "Preservative banned in several countries due to health concerns",
     banned_in |-> ("EU" :> TRUE) @@ ("Australia" :> TRUE) @@ ("New Zealand" :> TRUE),
     sources |-> <<"European Food Safety Authority">>],
    [key |-> <<"t","r","a","n","s"," ","f","a","t">>,
     name |-> <<"T","r","a","n","s"," ","F","a","t">>,
     risk_level |-> "banned",
     description |-> "Artificial trans fats banned due to cardiovascular health risks",
     banned_in |-> ("US" :> TRUE) @@ ("Canada" :> TRUE) @@ ("EU" :> TRUE),
     sources |-> <<"WHO", "FDA", "American Heart Association">>],
    [key |-> <<"b","r","o","m","i","n","a","t","e","d"," ","v","e","g","e","t","a","b","l","e",
             " ","o","i","l">>,
     name |-> <<"B","r","o","m","i","n","a","t","e","d"," ","V","e","g","e","t","a","b","l","e",
              " ","O","i","l"," ","(","B","V","O",")">>,
     risk_level |-> "banned",
     description |-> "Emulsifier banned in EU and Japan, linked to reproductive and thyroid issues",
     banned_in |-> ("EU" :> TRUE) @@ ("Japan" :> TRUE) @@ ("India" :> TRUE),
     sources |-> <<"FDA", "EFSA">>],
    [key |-> <<"a","z","o","d","i","c","a","r","b","o","n","a","m","i","d","e">>,
     name |-> <<"A","z","o","d","i","c","a","r","b","o","n","a","m","i","d","e">>,
     risk_level |-> "banned",
     description |-> "Used in bread as a dough conditioner, banned in EU and Australia",
     banned_in |-> ("EU" :> TRUE) @@ ("Australia" :> TRUE) @@ ("Singapore" :> TRUE),
     sources |-> <<"European Food Safety Authority", "FDA">>],
    [key |-> <<"r","a","c","t","o","p","a","m","i","n","e">>,
     name |-> <<"R","a","c","t","o","p","a","m","i","n","e">>,
     risk_level |-> "banned",
     description |-> "Feed additive banned in EU, China, and Russia due to safety concerns",
     banned_in |-> ("EU" :> TRUE) @@ ("China" :> TRUE) @@ ("Russia" :> TRUE),
     sources |-> <<"FAO", "EFSA">>]
  >>

Mock1 ==
  <<"N","U","T","R","I","T","I","O","N"," ","F","A","C","T","S","\n","S","e","r","v","i","n",
    "g"," ","S","i","z","e"," ","1"," ","p","a","c","k","a","g","e"," ","(","4","0","g",")",
    "\n","C","a","l","o","r","i","e","s"," ","1","5","0","\n","T","o","t","a","l"," ","F","a",
    "t"," ","6","g","\n","S","a","t","u","r","a","t","e","d"," ","F","a","t"," ","3","g","\n",
    "T","r","a","n","s"," ","F","a","t"," ","0","g","\n","C","h","o","l","e","s","t","e","r",
    "o","l"," ","1","0","m","g","\n","S","o","d","i","u","m"," ","1","2","5","m","g","\n","T",
    "o","t","a","l"," ","C","a","r","b","o","h","y","d","r","a","t","e"," ","2","0","g","\n",
    "D","i","e","t","a","r","y"," ","F","i","b","e","r"," ","2","g","\n","T","o","t","a","l",
    " ","S","u","g","a","r","s"," ","1","2","g","\n","P","r","o","t","e","i","n"," ","4","g",
    "\n","\n","I","N","G","R","E","D","I","E","N","T","S",":"," ","W","h","e","a","t"," ","f",
    "l","o","u","r",","," ","s","u","g","a","r",","," ","p","a","l","m"," ","o","i","l",","," ",
    "m","i","l","k"," ","p","o","w","d","e","r",","," ","e","g","g","s",","," ","s","a","l","t",
    ","," ","b","a","k","i","n","g"," ","p","o","w","d","e","r",","," ","a","r","t","i","f","i",
    "c","i","a","l"," ","v","a","n","i","l","l","a",","," ","s","o","d","i","u","m"," ","b","e",
    "n","z","o","a","t","e",","," ","r","e","d"," ","d","y","e"," ","4","0">>

Mock2 ==
  <<"I","N","G","R","E","D","I","E","N","T","S",":"," ","W","a","t","e","r",","," ","h","i","g",
    "h"," ","f","r","u","c","t","o","s","e"," ","c","o","r","n"," ","s","y","r","u","p",","," ",
    "c","i","t","r","i","c"," ","a","c","i","d",","," ","n","a","t","u","r","a","l"," ","f","l",
    "a","v","o","r","s",","," ","s","o","d","i","u","m"," ","b","e","n","z","o","a","t","e",",",
    " ","p","o","t","a","s","s","i","u","m"," ","s","o","r","b","a","t","e",","," ","y","e","l",
    "l","o","w"," ","d","y","e"," ","6",","," ","c","a","f","f","e","i","n","e","\n"," "," ",
    " "," "," "," "," "," "," "," "," "," ","\n","N","U","T","R","I","T","I","O","N"," ","I",
    "N","F","O","R","M","A","T","I","O","N","\n","C","a","l","o","r","i","e","s"," ","p","e",
    "r"," ","s","e","r","v","i","n","g",":"," ","1","4","0","\n","T","o","t","a","l"," ","F",
    "a","t",":"," ","0","g","\n","S","o","d","i","u","m",":"," ","5","5","m","g","\n","T","o",
    "t","a","l"," ","C","a","r","b","s",":"," ","3","9","g","\n","S","u","g","a","r","s",":",
    " ","3","8","g">>

Mock3 ==
  <<"I","N","G","R","E","D","I","E","N","T","S",":"," ","M","i","l","k",","," ","s","u","g","a",
    "r",","," ","c","o","c","o","a",","," ","v","a","n","i","l","l","a"," ","e","x","t","r","a",
    "c","t",","," ","c","a","r","r","a","g","e","e","n","a","n",","," ","g","u","a","r"," ","g",
    "u","m","\n"," "," "," "," "," "," "," "," "," "," "," "," ","\n","N","U","T","R","I","T",
    "I","O","N","A","L"," ","I","N","F","O","R","M","A","T","I","O","N"," ","(","p","e","r"," ",
    "1","0","0","m","l",")",":","\n","E","n","e","r","g","y",":"," ","2","8","0","k","J","/",
    "6","7","k","c","a","l","\n","F","a","t",":"," ","2",".","1","g","\n","S","a","t","u","r",
    "a","t","e","d"," ","F","a","t",":"," ","1",".","3","g","\n","C","a","r","b","o","h","y",
    "d","r","a","t","e","s",":"," ","9",".","8","g","\n","S","u","g","a","r","s",":"," ","9",
    ".","7","g","\n","P","r","o","t","e","i","n",":"," ","3",".","4","g","\n","S","a","l","t",
    ":"," ","0",".","1","g">>

Mock4 ==
  <<"I","N","G","R","E","D","I","E","N","T","S",":"," ","W","h","e","a","t"," ","f","l","o","u",
    "r",","," ","w","a","t","e","r",","," ","y","e","a","s","t",","," ","s","a","l","t",","," ",
    "s","u","g","a","r",","," ","v","e","g","e","t","a","b","l","e"," ","o","i","l",","," ","m",
    "i","l","k"," ","p","o","w","d","e","r",","," ","e","g","g","s",","," ","B","H","A",","," ",
    "B","H","T","\n"," "," "," "," "," "," "," "," "," "," "," "," ","\n","N","U","T","R","I",
    "T","I","O","N"," ","F","A","C","T","S","\n","S","e","r","v","i","n","g"," ","S","i","z",
    "e",":"," ","2"," ","s","l","i","c","e","s"," ","(","6","0","g",")","\n","C","a","l","o",
    "r","i","e","s",":"," ","1","6","0","\n","T","o","t","a","l"," ","F","a","t",":"," ","2",
    "g","\n","S","o","d","i","u","m",":"," ","3","2","0","m","g","\n","T","o","t","a","l"," ",
    "C","a","r","b","o","h","y","d","r","a","t","e",":"," ","3","0","g","\n","D","i","e","t",
    "a","r","y"," ","F","i","b","e","r",":"," ","2","g","\n","P","r","o","t","e","i","n",":",
    " ","6","g">>

Mock5 ==
  <<"O","R","G","A","N","I","C"," ","I","N","G","R","E","D","I","E","N","T","S",":"," ","O","r",
    "g","a","n","i","c"," ","w","h","e","a","t"," ","f","l","o","u","r",","," ","o","r","g","a",
    "n","i","c"," ","s","u","g","a","r",","," ","o","r","g","a","n","i","c"," ","p","a","l","m",
    " ","o","i","l",","," ","o","r","g","a","n","i","c"," ","m","i","l","k",","," ","o","r","g",
    "a","n","i","c"," ","e","g","g","s",","," ","s","e","a"," ","s","a","l","t",","," ","o","r",
    "g","a","n","i","c"," ","v","a","n","i","l","l","a"," ","e","x","t","r","a","c","t",","," ",
    "b","a","k","i","n","g"," ","s","o","d","a","\n"," "," "," "," "," "," "," "," "," "," ",
    " "," ","\n","N","U","T","R","I","T","I","O","N"," ","I","N","F","O","R","M","A","T","I",
    "O","N","\n","P","e","r"," ","s","e","r","v","i","n","g"," ","(","3","0","g",")",":","\n",
    "E","n","e","r","g","y",":"," ","5","2","0","k","J","/","1","2","5","k","c","a","l","\n",
    "F","a","t",":"," ","5",".","2","g","\n","S","a","t","u","r","a","t","e","d"," ","F","a",
    "t",":"," ","2",".","8","g","\n","C","a","r","b","o","h","y","d","r","a","t","e","s",":",
    " ","1","8","g","\n","S","u","g","a","r","s",":"," ","6",".","5","g","\n","P","r","o","t",
    "e","i","n",":"," ","2",".","1","g","\n","S","a","l","t",":"," ","0",".","4","g">>

Mock6 ==
  <<"I","N","G","R","E","D","I","E","N","T","S",":"," ","B","r","o","w","n"," ","r","i","c","e",
    ","," ","w","a","t","e","r",","," ","c","o","c","o","n","u","t"," ","o","i","l",","," ","s",
    "e","a"," ","s","a","l","t",","," ","n","u","t","r","i","t","i","o","n","a","l"," ","y","e",
    "a","s","t","\n"," "," "," "," "," "," "," "," "," "," "," "," ","\n","N","U","T","R","I",
    "T","I","O","N"," ","F","A","C","T","S","\n","S","e","r","v","i","n","g"," ","S","i","z",
    "e",":"," ","1"," ","c","u","p"," ","(","1","5","0","g",")","\n","C","a","l","o","r","i",
    "e","s",":"," ","1","8","0","\n","T","o","t","a","l"," ","F","a","t",":"," ","4","g","\n",
    "S","o","d","i","u","m",":"," ","2","0","0","m","g","\n","T","o","t","a","l"," ","C","a",
    "r","b","o","h","y","d","r","a","t","e",":"," ","3","5","g","\n","D","i","e","t","a","r",
    "y"," ","F","i","b","e","r",":"," ","3","g","\n","P","r","o","t","e","i","n",":"," ","4",
    "g">>

mock_responses == <<Mock1, Mock2, Mock3, Mock4, Mock5, Mock6>>

\* ------------------------------------------------------ the taxonomy lookup

CONF_DB == 95

CONF_FALLBACK == 85

CONF_UNKNOWN == 30

\* The default {} of banned_in.
EmptyDict == [j \in {} |-> TRUE]

\* d.get(field, default)
Get(d, field, default) == IF field \in DOMAIN d THEN d[field] ELSE default

\* ingredient_name.lower().strip()
IngredientLower(ingredient_name) == Strip(StrLower(ingredient_name))

\* key in ingredient_lower or ingredient_lower in key
KeyMatches(key, ingredient_lower) ==
  Contains(ingredient_lower, key) \/ Contains(key, ingredient_lower)

\* Mutant: the loop has no break, so the last entry that matches is kept.
RECURSIVE FallbackScanNoBreak(_, _)
FallbackScanNoBreak(ingredient_lower, k) ==
  IF k > Len(SAMPLE_INGREDIENTS) THEN <<>>
  ELSE LET later == FallbackScanNoBreak(ingredient_lower, k + 1)
       IN  IF later # <<>> THEN later
           ELSE IF KeyMatches(SAMPLE_INGREDIENTS[k].key, ingredient_lower)
           THEN <<SAMPLE_INGREDIENTS[k]>>
           ELSE <<>>

\* The loop over SAMPLE_INGREDIENTS.items(), in the dict's order, with its
\* break: <<>> (found_ingredient is None) or <<the first entry that matches>>.
RECURSIVE FallbackScan(_, _)
FallbackScan(ingredient_lower, k) ==
  IF k > Len(SAMPLE_INGREDIENTS) THEN <<>>
  ELSE IF KeyMatches(SAMPLE_INGREDIENTS[k].key, ingredient_lower)
  THEN <<SAMPLE_INGREDIENTS[k]>>
  ELSE FallbackScan(ingredient_lower, k + 1)

FallbackLookup(ingredient_lower) == FallbackScan(ingredient_lower, 1)

\* The documents initialize_sample_data inserts, in the dict's order.
SeededIngredients ==
  [k \in 1..Len(SAMPLE_INGREDIENTS) |->
     LET ingredient == SAMPLE_INGREDIENTS[k]
     IN  [name |-> ingredient.name,
          synonyms |-> <<ingredient.key, StrLower(ingredient.name)>>,
          description |-> ingredient.description,
          risk_level |-> ingredient.risk_level,
          banned_in |-> Get(ingredient, "banned_in", EmptyDict),
          sources |-> Get(ingredient, "sources", <<>>)]]

\* {"$regex": p, "$options": "i"} on s, for a p whose only regular
\* expression metacharacter is ".": p occurs in s, letter case ignored,
\* a "." of p standing for any character.
RegexSearchI(p, s) ==
  \E i \in 1..(Len(s) - Len(p) + 1) :
    \A j \in 1..Len(p) : p[j] = "." \/ Lower(p[j]) = Lower(s[i + j - 1])

\* {"$or": [{"synonyms": {"$in": [ingredient_lower]}},
\*          {"name": {"$regex": ingredient_lower, "$options": "i"}}]}
DocMatches(doc, ingredient_lower) ==
  \/ \E j \in 1..Len(doc.synonyms) : doc.synonyms[j] = ingredient_lower
  \/ RegexSearchI(ingredient_lower, doc.name)

\* find_one: <<>> (None) or <<the first document of the collection, in
\* insertion order, that matches>>.
RECURSIVE FindOneFrom(_, _, _)
FindOneFrom(coll, ingredient_lower, k) ==
  IF k > Len(coll) THEN <<>>
  ELSE IF DocMatches(coll[k], ingredient_lower) THEN <<coll[k]>>
  ELSE FindOneFrom(coll, ingredient_lower, k + 1)

find_one(coll, ingredient_lower) == FindOneFrom(coll, ingredient_lower, 1)

\* IngredientAnalysis(...) of a document found in the database.
DbAnalysis(db_ingredient) ==
  [name |-> db_ingredient.name,
   risk_level |-> db_ingredient.risk_level,
   description |-> db_ingredient.description,
   banned_in |-> Get(db_ingredient, "banned_in", EmptyDict),
   sources |-> Get(db_ingredient, "sources", <<>>),
   confidence |-> CONF_DB]

\* Mutant: banned_in is not passed on and keeps its default.
FallbackAnalysisNoBannedIn(found_ingredient) ==
  [name |-> found_ingredient.name,
   risk_level |-> found_ingredient.risk_level,
   description |-> found_ingredient.description,
   banned_in |-> EmptyDict,
   sources |-> Get(found_ingredient, "sources", <<>>),
   confidence |-> CONF_FALLBACK]

\* IngredientAnalysis(...) of an entry found in the sample data.
FallbackAnalysis(found_ingredient) ==
  [name |-> found_ingredient.name,
   risk_level |-> found_ingredient.risk_level,
   description |-> found_ingredient.description,
   banned_in |-> Get(found_ingredient, "banned_in", EmptyDict),
   sources |-> Get(found_ingredient, "sources", <<>>),
   confidence |-> CONF_FALLBACK]

\* IngredientAnalysis(...) of an unknown ingredient: banned_in and sources
\* keep the model's defaults.
UnknownAnalysis(ingredient_name) ==
  [name |-> Title(ingredient_name),
   risk_level |-> "safe",
   description |-> "Ingredient not found in database. Generally considered safe.",
   banned_in |-> EmptyDict,
   sources |-> <<>>,
   confidence |-> CONF_UNKNOWN]

\* Mutant: the sample data is looked at before the database's answer.
AnalysisSampleFirst(ingredient_name, db_ingredient) ==
  LET found_ingredient == FallbackLookup(IngredientLower(ingredient_name))
  IN  IF found_ingredient # <<>> THEN FallbackAnalysis(found_ingredient[1])
      ELSE IF db_ingredient # <<>> THEN DbAnalysis(db_ingredient[1])
      ELSE UnknownAnalysis(ingredient_name)

\* The body of the loop after the database pass: db_ingredient is <<>>
\* (None) or <<document>>.
Analysis(ingredient_name, db_ingredient) ==
  IF db_ingredient # <<>> THEN DbAnalysis(db_ingredient[1])
  ELSE LET found_ingredient == FallbackLookup(IngredientLower(ingredient_name))
       IN  IF found_ingredient # <<>> THEN FallbackAnalysis(found_ingredient[1])
           ELSE UnknownAnalysis(ingredient_name)

\* Mutant: the verdict is put at the front of the list.
PrependAnalysis(analyzed, analysis) == <<analysis>> \o analyzed

\* analyzed_ingredients.append(analysis)
AppendAnalysis(analyzed, analysis) == Append(analyzed, analysis)


\* ------------------------------------------------------------- the inputs

MaxTokens == 3

MaxSegs == 3

MaxCalls == 2

\* 10 * 1024 * 1024
MaxUploadBytes == 10 * 1024 * 1024

SeqsUpTo(S, n) == UNION {[1..k -> S] : k \in 0..n}

RECURSIVE Concat(_)
Concat(parts) == IF parts = <<>> THEN <<>> ELSE Head(parts) \o Concat(Tail(parts))

\* Every key of SAMPLE_INGREDIENTS as a token, as it is and upper-cased
\* between spaces.
KeyTokens ==
  UNION {{SAMPLE_INGREDIENTS[k].key,
          <<" ">> \o [i \in 1..Len(SAMPLE_INGREDIENTS[k].key) |->
                        Upper(SAMPLE_INGREDIENTS[k].key[i])] \o <<" ">>} :
         k \in 1..Len(SAMPLE_INGREDIENTS)}

\* Tokens that are part of a stored name and of no key.
NameTokens ==
  { <<"m","s","g">>,
    <<"A","c","e","s","u","l","f","a","m","e"," ","P","o","t","a","s","s","i","u","m">> }

\* Tokens that are a part of several keys.
KeyPartTokens ==
  { <<"o","i","l">>, <<"D","y","e"," ">> }

\* Tokens that the lists are made of: an unknown one, a key in another
\* case, one with a ".", the empty one, and one that holds two keys.
ListTokens ==
  { <<"x","y","z","z","y","f","o","o">>,
    <<"R","e","d"," ","D","y","e"," ","4","0">>,
    <<"s",".","g","a","r">>,
    <<>>,
    <<"s","u","g","a","r"," ","w","a","t","e","r">> }

\* The ingredient_names that analyze_ingredients is called with.
TokenLists ==
  SeqsUpTo(ListTokens, MaxTokens) \cup {<<t>> : t \in KeyTokens \cup NameTokens \cup KeyPartTokens}

\* The store as analyze_ingredients finds it: no handle, a handle on a
\* collection that was seeded, or a handle on one that was not.
StoreStates ==
  { [db |-> "None", ingredients |-> <<>>],
    [db |-> "health_scanner", ingredients |-> SeededIngredients],
    [db |-> "health_scanner", ingredients |-> <<>>] }

\* The pieces that the free texts are made of.
Segments ==
  { <<"I","n","g","r","e","d","i","e","n","t","s",":">>,
    <<"i","n","g","r","e","d","i","e","n","t">>,
    <<" ">>,
    <<"\n","\n">>,
    <<"\n">>,
    <<"N","u","t","r","i","t","i","o","n">>,
    <<"s","a","l","t",","," ","a","b">>,
    <<",","S","u","g","a","r">> }

SegmentTexts == {Concat(parts) : parts \in SeqsUpTo(Segments, MaxSegs)}

SlotPrefixes ==
  { <<>>,
    <<"O","r","g","a","n","i","c"," ">>,
    <<"C","a","l","o","r","i","e","s"," ","1","5","0","\n","\n">> }

SlotHeaders ==
  { <<"I","N","G","R","E","D","I","E","N","T","S">>,
    <<"I","n","g","r","e","d","i","e","n","t">>,
    <<"i","n","g","r","e","d","i","e","n","t","s",":">> }

SlotGaps == { <<>>, <<" ">>, <<"\n","\n">>, <<" ",":"," ","\n">> }

SlotBodies ==
  { <<>>,
    <<"a","b","c">>,
    <<"S","a","l","t",","," ","a","b",","," ","S","u","g","a","r">>,
    <<"n","u","t","r","i","t","i","o","n","a","l"," ","y","e","a","s","t",","," "," ","w","a",
      "t","e","r"," ">> }

SlotTerminators ==
  { <<>>,
    <<"\n">>,
    <<"\n","\n">>,
    <<"\n","N","u","t","r","i","t","i","o","n"," ","F","a","c","t","s">> }

SlotTails ==
  { <<>>,
    <<"x","y","z",","," ","H","o","n","e","y">>,
    <<"I","n","g","r","e","d","i","e","n","t","s",":"," ","o","a","t","s">> }

\* Label texts laid out as the canned ones are: something before the
\* header, the header, what separates it from the list, the list, what ends
\* it, and something after.
SlotTexts ==
  {p \o h \o g \o b \o t \o l :
     p \in SlotPrefixes, h \in SlotHeaders, g \in SlotGaps, b \in SlotBodies,
     t \in SlotTerminators, l \in SlotTails}

\* The label of each fact as the canned texts print it, in patterns' order.
FactLabels ==
  << <<"C","a","l","o","r","i","e","s">>,
     <<"T","o","t","a","l"," ","F","a","t">>,
     <<"S","a","t","u","r","a","t","e","d"," ","F","a","t">>,
     <<"T","r","a","n","s"," ","F","a","t">>,
     <<"C","h","o","l","e","s","t","e","r","o","l">>,
     <<"S","o","d","i","u","m">>,
     <<"T","o","t","a","l"," ","C","a","r","b","o","h","y","d","r","a","t","e">>,
     <<"D","i","e","t","a","r","y"," ","F","i","b","e","r">>,
     <<"S","u","g","a","r","s">>,
     <<"P","r","o","t","e","i","n">> >>

FactSeparators == { <<" ">>, <<":"," ">> }

IntegerValues == { <<"0">>, <<"1","2">> }

DecimalValues == { <<"2",".","5">>, <<"0",".","1">> }

FactGaps == { <<>>, <<" ">> }

\* One label line: the label, a separator, a value, and the unit of the
\* fact's pattern after an optional space.
LabelLine(k, sep, value, gap) ==
  FactLabels[k] \o sep \o value \o gap \o patterns[k].unit

LabelLineTexts ==
  {LabelLine(k, sep, value, gap) :
     k \in 1..Len(patterns), sep \in FactSeparators,
     value \in IntegerValues \cup DecimalValues, gap \in FactGaps}

\* The ingredients line of the first canned text.
ReferenceIngredients ==
  <<"I","N","G","R","E","D","I","E","N","T","S",":"," ","W","h","e","a","t"," ","f","l","o","u",
    "r",","," ","s","u","g","a","r",","," ","p","a","l","m"," ","o","i","l",","," ","m","i","l",
    "k"," ","p","o","w","d","e","r",","," ","e","g","g","s",","," ","s","a","l","t",","," ","b",
    "a","k","i","n","g"," ","p","o","w","d","e","r",","," ","a","r","t","i","f","i","c","i","a",
    "l"," ","v","a","n","i","l","l","a",","," ","s","o","d","i","u","m"," ","b","e","n","z","o",
    "a","t","e",","," ","r","e","d"," ","d","y","e"," ","4","0">>

\* What separates the ingredients line from a nutrition block in the canned
\* texts (a line of spaces, as in the second to the sixth), an empty line or
\* a line break.
ReferenceSeparators ==
  { <<"\n","\n">>,
    <<"\n">>,
    <<"\n"," "," "," "," "," "," "," "," "," "," "," "," ","\n">> }

\* A nutrition block: its header line and its facts.
NutritionBlocks ==
  { <<"N","U","T","R","I","T","I","O","N"," ","F","A","C","T","S","\n","T","r","a","n","s"," ",
      "F","a","t"," ","0","g">>,
    <<"N","u","t","r","i","t","i","o","n"," ","F","a","c","t","s","\n","C","a","l","o","r","i",
      "e","s"," ","1","5","0","\n","T","o","t","a","l"," ","F","a","t"," ","6","g","\n","T","r",
      "a","n","s"," ","F","a","t"," ","0","g","\n","S","o","d","i","u","m"," ","1","2","5","m",
      "g","\n">> }

ReferenceTexts ==
  {ReferenceIngredients \o sep \o block :
     sep \in ReferenceSeparators, block \in NutritionBlocks}

MockTexts == {mock_responses[m] : m \in 1..Len(mock_responses)}

\* The texts that the two parsers are called with.
TextInputs ==
  SegmentTexts \cup SlotTexts \cup LabelLineTexts \cup ReferenceTexts \cup MockTexts

\* The uploads: content_type is <<>> (None) or <<str>>.
ContentTypes ==
  { <<>>,
    << <<>> >>,
    << <<"t","e","x","t","/","p","l","a","i","n">> >>,
    << <<"I","m","a","g","e","/","p","n","g">> >>,
    << <<"i","m","a","g","e","/","p","n","g">> >> }

ImagePrefix == <<"i","m","a","g","e","/">>

Uploads ==
  [filename : {"label.png"},
   content_type : ContentTypes,
   size : {MaxUploadBytes, MaxUploadBytes + 1},
   is_image : BOOLEAN]

\* ---------------------------------------------------------------- the state

VARIABLES
  pc,                   \* where the code stands
  db,                   \* the global db: "None" or the database handle
  ingredients,          \* the documents of db.ingredients
  scans,                \* the documents of db.scans
  file,                 \* <<>> or <<the upload of the request>>
  ocr_calls,            \* calls of mock_ocr.extract_text_from_image
  extracted_text,       \* the text the parsers are given
  ingredient_names,     \* what parse_ingredients_from_text returned
  nutritional_info,     \* what extract_nutritional_info returned
  calls,                \* how many times each parser was called
  tok_idx,              \* the position of analyze_ingredients' loop
  analyzed_ingredients, \* the list analyze_ingredients builds
  store_log,            \* what the database pass gave for each token
  response              \* <<>> or <<the response of the request>>

vars ==
  <<pc, db, ingredients, scans, file, ocr_calls, extracted_text, ingredient_names,
    nutritional_info, calls, tok_idx, analyzed_ingredients, store_log, response>>

NoCalls == [parse |-> 0, extract |-> 0]

\* ------------------------------------------------------ analyze_ingredients

\* One turn of the loop, db_ingredient being what the database pass left.
AnalyzeTurn(db_ingredient, outcome) ==
  /\ pc = "analyze"
  /\ tok_idx <= Len(ingredient_names)
  /\ analyzed_ingredients' =
       AppendAnalysis(analyzed_ingredients,
                      Analysis(ingredient_names[tok_idx], db_ingredient))
  /\ store_log' = Append(store_log, outcome)
  /\ tok_idx' = tok_idx + 1
  /\ UNCHANGED <<pc, db, ingredients, scans, file, ocr_calls, extracted_text,
                 ingredient_names, nutritional_info, calls, response>>

\* db is None: the database pass is skipped.
AnalyzeNoStore ==
  /\ db = "None"
  /\ AnalyzeTurn(<<>>, "absent")

\* find_one answers, with a document or with None.
AnalyzeStoreAnswers ==
  /\ db # "None"
  /\ pc = "analyze"
  /\ tok_idx <= Len(ingredient_names)
  /\ LET db_ingredient ==
           find_one(ingredients, IngredientLower(ingredient_names[tok_idx]))
     IN  AnalyzeTurn(db_ingredient, IF db_ingredient # <<>> THEN "hit" ELSE "miss")

\* find_one raises: the error is printed and db_ingredient stays None.
AnalyzeStoreRaises ==
  /\ db # "None"
  /\ AnalyzeTurn(<<>>, "raised")

\* return analyzed_ingredients
AnalyzeReturn ==
  /\ pc = "analyze"
  /\ tok_idx > Len(ingredient_names)
  /\ pc' = "returned"
  /\ UNCHANGED <<db, ingredients, scans, file, ocr_calls, extracted_text, ingredient_names,
                 nutritional_info, calls, tok_idx, analyzed_ingredients, store_log, response>>

AnalyzeInit ==
  /\ pc = "analyze"
  /\ \E store \in StoreStates : db = store.db /\ ingredients = store.ingredients
  /\ scans = <<>>
  /\ file = <<>>
  /\ ocr_calls = 0
  /\ extracted_text = <<>>
  /\ ingredient_names \in TokenLists
  /\ nutritional_info = EmptyDict
  /\ calls = NoCalls
  /\ tok_idx = 1
  /\ analyzed_ingredients = <<>>
  /\ store_log = <<>>
  /\ response = <<>>

AnalyzeNext ==
  \/ AnalyzeNoStore
  \/ AnalyzeStoreAnswers
  \/ AnalyzeStoreRaises
  \/ AnalyzeReturn

SpecAnalyze == AnalyzeInit /\ [][AnalyzeNext]_vars

\* ------------------------------------------------------------- the parsers

CallParse ==
  /\ pc = "text"
  /\ calls.parse + calls.extract < MaxCalls
  /\ ingredient_names' = parse_ingredients_from_text(extracted_text)
  /\ calls' = [calls EXCEPT !.parse = @ + 1]
  /\ UNCHANGED <<pc, db, ingredients, scans, file, ocr_calls, extracted_text,
                 nutritional_info, tok_idx, analyzed_ingredients, store_log, response>>

CallExtract ==
  /\ pc = "text"
  /\ calls.parse + calls.extract < MaxCalls
  /\ nutritional_info' = extract_nutritional_info(extracted_text)
  /\ calls' = [calls EXCEPT !.extract = @ + 1]
  /\ UNCHANGED <<pc, db, ingredients, scans, file, ocr_calls, extracted_text,
                 ingredient_names, tok_idx, analyzed_ingredients, store_log, response>>

ParseInit ==
  /\ pc = "text"
  /\ db = "None"
  /\ ingredients = <<>>
  /\ scans = <<>>
  /\ file = <<>>
  /\ ocr_calls = 0
  /\ extracted_text \in TextInputs
  /\ ingredient_names = <<>>
  /\ nutritional_info = EmptyDict
  /\ calls = NoCalls
  /\ tok_idx = 1
  /\ analyzed_ingredients = <<>>
  /\ store_log = <<>>
  /\ response = <<>>

ParseNext == CallParse \/ CallExtract

SpecParse == ParseInit /\ [][ParseNext]_vars


\* ------------------------------------------------------ startup_db_client

\* AsyncIOMotorClient(...) raises: the error is printed, db stays None.
StartupFails ==
  /\ pc = "startup"
  /\ pc' = "serving"
  /\ UNCHANGED <<db, ingredients, scans, file, ocr_calls, extracted_text, ingredient_names,
                 nutritional_info, calls, tok_idx, analyzed_ingredients, store_log, response>>

\* The handle is set and initialize_sample_data replaces the collection.
StartupSeeds ==
  /\ pc = "startup"
  /\ db' = "health_scanner"
  /\ ingredients' = SeededIngredients
  /\ pc' = "serving"
  /\ UNCHANGED <<scans, file, ocr_calls, extracted_text, ingredient_names,
                 nutritional_info, calls, tok_idx, analyzed_ingredients, store_log, response>>

\* The handle is set and initialize_sample_data fails: it prints the error.
StartupSeedFails ==
  /\ pc = "startup"
  /\ db' = "health_scanner"
  /\ pc' = "serving"
  /\ UNCHANGED <<ingredients, scans, file, ocr_calls, extracted_text, ingredient_names,
                 nutritional_info, calls, tok_idx, analyzed_ingredients, store_log, response>>

\* --------------------------------------------------------- scan_food_label

HTTPException(status_code, detail) ==
  [type |-> "HTTPException", status_code |-> status_code, detail |-> detail]

\* Mutant: without the except HTTPException clause every exception raised
\* inside the try ends in the 500 response.
ScanExceptAll(exc) ==
  [status_code |-> 500, detail |-> "Internal server error", body |-> <<>>]

\* except HTTPException: raise / except Exception: raise HTTPException(500):
\* the response that an exception raised inside the try ends in.
ScanExcept(exc) ==
  IF exc.type = "HTTPException"
  THEN [status_code |-> exc.status_code, detail |-> exc.detail, body |-> <<>>]
  ELSE [status_code |-> 500, detail |-> "Internal server error", body |-> <<>>]

\* not file.content_type or not file.content_type.startswith('image/')
BadContentType(f) ==
  \/ f.content_type = <<>>
  \/ f.content_type[1] = <<>>
  \/ ~StartsWith(f.content_type[1], ImagePrefix)

\* len(content) > 10 * 1024 * 1024
TooLarge(f) == f.size > MaxUploadBytes

\* Image.open(...) or image.verify() raises
NotAnImage(f) == ~f.is_image

\* The request arrives and the content type is checked, up to file.read().
ScanBegin ==
  /\ pc = "serving"
  /\ \E f \in Uploads :
       /\ file' = <<f>>
       /\ IF BadContentType(f)
          THEN /\ response' =
                    <<ScanExcept(HTTPException(400, "Only image files are allowed"))>>
               /\ pc' = "responded"
          ELSE /\ response' = response
               /\ pc' = "read"
  /\ UNCHANGED <<db, ingredients, scans, ocr_calls, extracted_text, ingredient_names,
                 nutritional_info, calls, tok_idx, analyzed_ingredients, store_log>>

\* file.read() returned: the size and the image are checked and
\* mock_ocr.extract_text_from_image is called.
ScanRead ==
  /\ pc = "read"
  /\ LET f == file[1]
     IN  IF TooLarge(f)
         THEN /\ response' =
                   <<ScanExcept(HTTPException(413, "File size exceeds 10MB limit"))>>
              /\ pc' = "responded"
              /\ ocr_calls' = ocr_calls
         ELSE IF NotAnImage(f)
         THEN /\ response' = <<ScanExcept(HTTPException(400, "Invalid image file"))>>
              /\ pc' = "responded"
              /\ ocr_calls' = ocr_calls
         ELSE /\ response' = response
              /\ pc' = "ocr"
              /\ ocr_calls' = ocr_calls + 1
  /\ UNCHANGED <<db, ingredients, scans, file, extracted_text, ingredient_names,
                 nutritional_info, calls, tok_idx, analyzed_ingredients, store_log>>

\* The mock OCR returns one of its canned texts; the text is parsed and
\* analyze_ingredients is entered.
ScanOcrReturns ==
  /\ pc = "ocr"
  /\ \E m \in 1..Len(mock_responses) :
       /\ extracted_text' = mock_responses[m]
       /\ ingredient_names' = parse_ingredients_from_text(mock_responses[m])
       /\ nutritional_info' = extract_nutritional_info(mock_responses[m])
  /\ calls' = [parse |-> calls.parse + 1, extract |-> calls.extract + 1]
  /\ tok_idx' = 1
  /\ analyzed_ingredients' = <<>>
  /\ store_log' = <<>>
  /\ pc' = "analyze"
  /\ UNCHANGED <<db, ingredients, scans, file, ocr_calls, response>>

scan_id == "uuid4"

scan_document ==
  [_id |-> scan_id,
   image_filename |-> file[1].filename,
   image_size |-> file[1].size,
   ocr_text |-> extracted_text,
   parsed_ingredients |-> analyzed_ingredients,
   nutritional_info |-> nutritional_info]

ScanResult ==
  [scan_id |-> scan_id,
   ocr_text |-> extracted_text,
   parsed_ingredients |-> analyzed_ingredients,
   nutritional_info |-> nutritional_info,
   image_info |-> [filename |-> file[1].filename,
                   size |-> file[1].size,
                   content_type |-> file[1].content_type[1]]]

\* analyze_ingredients has returned.
ScanAnalyzed ==
  /\ pc = "analyze"
  /\ file # <<>>
  /\ tok_idx > Len(ingredient_names)

\* return ScanResult(...)
ScanReturns ==
  /\ response' = <<[status_code |-> 200, detail |-> "", body |-> <<ScanResult>>]>>
  /\ pc' = "responded"
  /\ UNCHANGED <<db, ingredients, file, ocr_calls, extracted_text, ingredient_names,
                 nutritional_info, calls, tok_idx, analyzed_ingredients, store_log>>

\* db is None: nothing is stored.
ScanSkipsStore ==
  /\ ScanAnalyzed
  /\ db = "None"
  /\ scans' = scans
  /\ ScanReturns

\* insert_one stores the document.
ScanStores ==
  /\ ScanAnalyzed
  /\ db # "None"
  /\ scans' = Append(scans, scan_document)
  /\ ScanReturns

\* Mutant: the insert is not guarded and its exception reaches the outer
\* except Exception clause.
ScanStoreRaisesUnguarded ==
  /\ ScanAnalyzed
  /\ db # "None"
  /\ scans' = scans
  /\ response' = <<ScanExcept([type |-> "Exception"])>>
  /\ pc' = "responded"
  /\ UNCHANGED <<db, ingredients, file, ocr_calls, extracted_text, ingredient_names,
                 nutritional_info, calls, tok_idx, analyzed_ingredients, store_log>>

\* insert_one raises: the error is printed.
ScanStoreRaises ==
  /\ ScanAnalyzed
  /\ db # "None"
  /\ scans' = scans
  /\ ScanReturns

Init ==
  /\ pc = "startup"
  /\ db = "None"
  /\ ingredients = <<>>
  /\ scans = <<>>
  /\ file = <<>>
  /\ ocr_calls = 0
  /\ extracted_text = <<>>
  /\ ingredient_names = <<>>
  /\ nutritional_info = EmptyDict
  /\ calls = NoCalls
  /\ tok_idx = 1
  /\ analyzed_ingredients = <<>>
  /\ store_log = <<>>
  /\ response = <<>>

Next ==
  \/ StartupFails
  \/ StartupSeeds
  \/ StartupSeedFails
  \/ ScanBegin
  \/ ScanRead
  \/ ScanOcrReturns
  \/ AnalyzeNoStore
  \/ AnalyzeStoreAnswers
  \/ AnalyzeStoreRaises
  \/ ScanSkipsStore
  \/ ScanStores
  \/ ScanStoreRaises

Spec == Init /\ [][Next]_vars

\* ================================================================ claims

\* What the database pass left for the i-th token, read from the log.
LoggedDbIngredient(i) ==
  IF store_log[i] = "hit"
  THEN find_one(ingredients, IngredientLower(ingredient_names[i]))
  ELSE <<>>

\* C1: whatever the token sequence (empty, with duplicates, with unknown
\* tokens) and whatever the store does (no handle, answers, raises),
\* analyze_ingredients holds one verdict for each token it has gone through,
\* the i-th verdict is the classification of the i-th token, and what it
\* returns has exactly one verdict per input token.
C1_OneVerdictPerToken ==
  /\ Len(analyzed_ingredients) = tok_idx - 1
  /\ Len(store_log) = tok_idx - 1
  /\ tok_idx - 1 <= Len(ingredient_names)
  /\ \A i \in 1..Len(analyzed_ingredients) :
       analyzed_ingredients[i] = Analysis(ingredient_names[i], LoggedDbIngredient(i))
  /\ pc = "returned" => Len(analyzed_ingredients) = Len(ingredient_names)

\* A returned list for three tokens, the first and the last the same, the
\* second unknown, with a query that raised and a query that found a document.
C1_Witness ==
  /\ pc = "returned"
  /\ Len(ingredient_names) = 3
  /\ ingredient_names[1] = ingredient_names[3]
  /\ ingredient_names[1] # ingredient_names[2]
  /\ analyzed_ingredients[2].confidence = CONF_UNKNOWN
  /\ store_log[1] = "raised"
  /\ store_log[3] = "hit"
  /\ analyzed_ingredients[1] # analyzed_ingredients[3]

\* The call with no token returned the empty list.
C1_WitnessEmpty ==
  /\ pc = "returned"
  /\ ingredient_names = <<>>
  /\ analyzed_ingredients = <<>>

\* Every synonym of the taxonomy: the keys of SAMPLE_INGREDIENTS and the
\* synonyms of the documents stored from them.
C2_TaxonomySynonyms ==
  {SAMPLE_INGREDIENTS[k].key : k \in 1..Len(SAMPLE_INGREDIENTS)} \cup
  UNION {{SeededIngredients[k].synonyms[j] : j \in 1..Len(SeededIngredients[k].synonyms)} :
         k \in 1..Len(SeededIngredients)}

\* The lowercased, trimmed token contains no synonym and no synonym
\* contains it.
C2_NoSubstringRelation(ingredient_name) ==
  \A synonym \in C2_TaxonomySynonyms :
    /\ ~Contains(IngredientLower(ingredient_name), synonym)
    /\ ~Contains(synonym, IngredientLower(ingredient_name))

\* C2: a token with no substring relation to any taxonomy synonym gets a
\* verdict with risk level safe, confidence 0.3, no sources and an empty
\* banned-in set.
C2_UnrelatedTokenIsUnknown ==
  \A i \in 1..Len(analyzed_ingredients) :
    C2_NoSubstringRelation(ingredient_names[i]) =>
      /\ analyzed_ingredients[i].risk_level = "safe"
      /\ analyzed_ingredients[i].confidence = CONF_UNKNOWN
      /\ analyzed_ingredients[i].sources = <<>>
      /\ analyzed_ingredients[i].banned_in = EmptyDict

\* C3: a token that is, lowercased and trimmed, a key of SAMPLE_INGREDIENTS
\* and that the database pass left to the sample data gets that entry's risk
\* level, description and banned-in set with confidence 0.85; "red dye 40"
\* gets risk level banned and a banned-in set with "EU": true.
C3_ExactKeyGetsItsEntry ==
  \A i \in 1..Len(analyzed_ingredients) :
    store_log[i] # "hit" =>
      /\ \A k \in 1..Len(SAMPLE_INGREDIENTS) :
           IngredientLower(ingredient_names[i]) = SAMPLE_INGREDIENTS[k].key =>
             /\ analyzed_ingredients[i].risk_level = SAMPLE_INGREDIENTS[k].risk_level
             /\ analyzed_ingredients[i].description = SAMPLE_INGREDIENTS[k].description
             /\ analyzed_ingredients[i].banned_in =
                  IF "banned_in" \in DOMAIN SAMPLE_INGREDIENTS[k]
                  THEN SAMPLE_INGREDIENTS[k].banned_in ELSE EmptyDict
             /\ analyzed_ingredients[i].confidence = CONF_FALLBACK
      /\ IngredientLower(ingredient_names[i]) = <<"r","e","d"," ","d","y","e"," ","4","0">> =>
           /\ analyzed_ingredients[i].risk_level = "banned"
           /\ "EU" \in DOMAIN analyzed_ingredients[i].banned_in
           /\ analyzed_ingredients[i].banned_in["EU"] = TRUE

\* The token " RED DYE 40 " classified from the sample data after the
\* database query raised.
C3_Witness ==
  /\ pc = "returned"
  /\ ingredient_names = << <<" ","R","E","D"," ","D","Y","E"," ","4","0"," ">> >>
  /\ store_log = <<"raised">>
  /\ analyzed_ingredients[1].confidence = CONF_FALLBACK
  /\ analyzed_ingredients[1].risk_level = "banned"

\* The upload breaks one of the three constraints.
C4_Violates(f) == BadContentType(f) \/ TooLarge(f) \/ NotAnImage(f)

\* C4: for an upload that breaks a constraint the text extraction is never
\* called, nothing is parsed or classified, no scan document is stored, and
\* the response is the client error of the first constraint broken: 400 for
\* the content type, else 413 for the size, else 400 for the image; never 500.
C4_RejectedBeforePipeline ==
  (file # <<>> /\ C4_Violates(file[1])) =>
    /\ ocr_calls = 0
    /\ calls = NoCalls
    /\ extracted_text = <<>>
    /\ analyzed_ingredients = <<>>
    /\ scans = <<>>
    /\ pc \in {"read", "responded"}
    /\ pc = "responded" =>
         /\ response # <<>>
         /\ response[1].body = <<>>
         /\ response[1].status_code \in {400, 413}
         /\ response[1].status_code =
              IF BadContentType(file[1]) THEN 400
              ELSE IF TooLarge(file[1]) THEN 413
              ELSE 400

\* An upload one byte over the limit, of an image type, answered with 413
\* while the store is up.
C4_Witness ==
  /\ pc = "responded"
  /\ db # "None"
  /\ ~BadContentType(file[1])
  /\ file[1].size = MaxUploadBytes + 1
  /\ response[1].status_code = 413
  /\ ocr_calls = 0

\* The upload passes the three checks.
C5_Valid(f) == ~BadContentType(f) /\ ~TooLarge(f) /\ ~NotAnImage(f)

\* The body of a response is a ScanResult built from this request.
C5_FullyFormed(body) ==
  /\ body.scan_id = scan_id
  /\ body.ocr_text \in MockTexts
  /\ body.ocr_text = extracted_text
  /\ Len(body.parsed_ingredients) = Len(ingredient_names)
  /\ calls.parse = 1 /\ calls.extract = 1
  /\ \A i \in 1..Len(body.parsed_ingredients) :
       body.parsed_ingredients[i].confidence \in {CONF_DB, CONF_FALLBACK, CONF_UNKNOWN}
  /\ body.nutritional_info = nutritional_info
  /\ body.image_info.size = file[1].size
  /\ body.image_info.filename = file[1].filename
  /\ body.image_info.content_type = file[1].content_type[1]

\* The handler stands where one of its steps can be taken: the read, the
\* return of the OCR, a turn of the classification loop, or the store and
\* the return.
C5_HasNextStep ==
  \/ pc = "read"
  \/ pc = "ocr"
  \/ pc = "analyze" /\ tok_idx <= Len(ingredient_names)
  \/ ScanAnalyzed

\* C5: the response to an upload that passes validation is 200 with a
\* fully-formed ScanResult whether the store handle is absent, the
\* ingredient queries raise or the insert raises: a token whose store query
\* did not answer with a document is classified from the sample data, and
\* without a handle nothing is stored; until the response is made the
\* handler always has a next step to take.
C5_StoreFailureNeverFailsScan ==
  (file # <<>> /\ C5_Valid(file[1])) =>
    /\ pc # "responded" => C5_HasNextStep
    /\ Len(scans) <= 1
    /\ db = "None" => scans = <<>>
    /\ \A i \in 1..Len(analyzed_ingredients) :
         store_log[i] # "hit" =>
           analyzed_ingredients[i] = Analysis(ingredient_names[i], <<>>)
    /\ pc = "responded" =>
         /\ response # <<>>
         /\ response[1].status_code = 200
         /\ response[1].body # <<>>
         /\ C5_FullyFormed(response[1].body[1])
         /\ scans # <<>> => scans[1].parsed_ingredients = response[1].body[1].parsed_ingredients

\* A 200 response with ten verdicts after every ingredient query raised and
\* the insert raised too.
C5_Witness ==
  /\ pc = "responded"
  /\ db # "None"
  /\ response[1].status_code = 200
  /\ Len(response[1].body[1].parsed_ingredients) = 10
  /\ \A i \in 1..Len(store_log) : store_log[i] = "raised"
  /\ scans = <<>>

\* No "ingredient" in the text, whatever the case of its letters.
C6_NoHeader(text) ==
  \A i \in 1..Len(text) : ~MatchesAt(HeaderWord, StrLower(text), i)

\* C6: for a text without an "ingredient(s)" header
\* parse_ingredients_from_text returns the empty list, and a call of it
\* changes nothing but its result: called again on the same text it returns
\* what it returned before, and the text and the nutrition facts stay.
C6_NoHeaderGivesEmpty ==
  /\ [](calls.parse > 0 /\ C6_NoHeader(extracted_text) => ingredient_names = <<>>)
  /\ [][calls.parse' # calls.parse =>
          /\ extracted_text' = extracted_text
          /\ nutritional_info' = nutritional_info
          /\ calls.parse > 0 => ingredient_names' = ingredient_names]_vars

\* A text with commas and long pieces but no header, parsed twice.
C6_Witness ==
  /\ calls.parse = 2
  /\ C6_NoHeader(extracted_text)
  /\ extracted_text =
       <<"s","a","l","t",","," ","a","b",",","S","u","g","a","r","N","u","t","r","i","t","i","o","n">>
  /\ ingredient_names = <<>>

\* C7: every entry parse_ingredients_from_text returns is at least three
\* characters long and neither starts nor ends with whitespace.
C7_EntriesAreTrimmedAndLong ==
  calls.parse > 0 =>
    \A i \in 1..Len(ingredient_names) :
      /\ Len(ingredient_names[i]) >= 3
      /\ ~IsSpace(ingredient_names[i][1])
      /\ ~IsSpace(ingredient_names[i][Len(ingredient_names[i])])

\* "Salt, ab, Sugar" parsed: the two-character piece is dropped and the
\* other two are returned without their spaces.
C7_Witness ==
  /\ calls.parse > 0
  /\ extracted_text =
       <<"i","n","g","r","e","d","i","e","n","t","s",":"," ","S","a","l","t",","," ","a","b",
         ","," ","S","u","g","a","r","\n">>
  /\ ingredient_names = << <<"s","a","l","t">>, <<"s","u","g","a","r">> >>

C8_ReferenceTokens ==
  << <<"w","h","e","a","t"," ","f","l","o","u","r">>,
     <<"s","u","g","a","r">>,
     <<"p","a","l","m"," ","o","i","l">>,
     <<"m","i","l","k"," ","p","o","w","d","e","r">>,
     <<"e","g","g","s">>,
     <<"s","a","l","t">>,
     <<"b","a","k","i","n","g"," ","p","o","w","d","e","r">>,
     <<"a","r","t","i","f","i","c","i","a","l"," ","v","a","n","i","l","l","a">>,
     <<"s","o","d","i","u","m"," ","b","e","n","z","o","a","t","e">>,
     <<"r","e","d"," ","d","y","e"," ","4","0">> >>

\* C8: for the reference ingredients line followed by a nutrition block
\* that holds "Trans Fat 0g", parse_ingredients_from_text returns the ten
\* tokens of the line in their order, the last one "red dye 40", and
\* extract_nutritional_info maps trans_fat to "0".
C8_ReferenceRoundTrip ==
  extracted_text \in ReferenceTexts =>
    /\ calls.parse > 0 =>
         /\ Len(ingredient_names) = 10
         /\ ingredient_names = C8_ReferenceTokens
         /\ ingredient_names[10] = <<"r","e","d"," ","d","y","e"," ","4","0">>
    /\ calls.extract > 0 =>
         /\ "trans_fat" \in DOMAIN nutritional_info
         /\ nutritional_info["trans_fat"] = <<"0">>

\* A reference text whose nutrition block follows after a single line
\* break, parsed and extracted.
C8_Witness ==
  /\ extracted_text \in ReferenceTexts
  /\ extracted_text[Len(ReferenceIngredients) + 1] = "\n"
  /\ extracted_text[Len(ReferenceIngredients) + 2] = "N"
  /\ calls.parse = 1
  /\ calls.extract = 1
  /\ Len(ingredient_names) = 10
  /\ "trans_fat" \in DOMAIN nutritional_info

\* The text has a header.
C9_HasHeader(s) == \E i \in 1..Len(s) : MatchesAt(HeaderWord, s, i)

\* The position after the first "ingredient" of the text.
C9_AfterFirstHeaderWord(s) ==
  Len(HeaderWord) +
    (CHOOSE i \in 1..Len(s) :
       /\ MatchesAt(HeaderWord, s, i)
       /\ \A j \in 1..(i - 1) : ~MatchesAt(HeaderWord, s, j))

\* A double line-break or the word "nutrition" starts at e, or the text
\* ends before e.
C9_IsTerminator(s, e) ==
  \/ e = Len(s) + 1
  \/ e + 1 <= Len(s) /\ s[e] = "\n" /\ s[e + 1] = "\n"
  \/ /\ e + 8 <= Len(s)
     /\ SubSeq(s, e, e + 8) = <<"n","u","t","r","i","t","i","o","n">>

\* The first terminator at or after from.
C9_FirstTerminator(s, from) ==
  CHOOSE e \in from..(Len(s) + 1) :
    /\ C9_IsTerminator(s, e)
    /\ \A j \in from..(e - 1) : ~C9_IsTerminator(s, j)

\* The comma-separated pieces of a span, trimmed, the short ones dropped.
C9_Pieces(span) == FilterLong(MapStrip(SplitComma(span)))

\* The position just after the header: after "ingredient", its "s" if it
\* is there and a colon if one follows at once.
C9_JustAfterHeader(s) ==
  LET p0 == C9_AfterFirstHeaderWord(s)
      p1 == IF p0 <= Len(s) /\ s[p0] = "s" THEN p0 + 1 ELSE p0
  IN  IF p1 <= Len(s) /\ s[p1] = ":" THEN p1 + 1 ELSE p1

\* C9 as claimed: the result is made of the pieces of the span from just
\* after the first header to the first double line-break, "nutrition" or
\* end of text, so that no piece located after that terminator is returned.
C9_SpanEndsAtFirstTerminatorAfterHeader ==
  (calls.parse > 0 /\ C9_HasHeader(StrLower(extracted_text))) =>
    LET s == StrLower(extracted_text)
        a == C9_JustAfterHeader(s)
    IN  ingredient_names = C9_Pieces(SubSeq(s, a, C9_FirstTerminator(s, a) - 1))

\* u is an optional "s", then whitespace with at most one colon in it.
C9_IsHeaderTail(u) ==
  LET r == IF u # <<>> /\ u[1] = "s" THEN Tail(u) ELSE u
  IN  /\ \A i \in 1..Len(r) : IsSpace(r[i]) \/ r[i] = ":"
      /\ Cardinality({i \in 1..Len(r) : r[i] = ":"}) <= 1

\* Where the span starts: after the longest header tail that follows the
\* first "ingredient", but no later than the last character of the text.
C9_SpanStart(s) ==
  LET p0 == C9_AfterFirstHeaderWord(s)
      ends == {q \in p0..(Len(s) + 1) : C9_IsHeaderTail(SubSeq(s, p0, q - 1))}
      longest == CHOOSE q \in ends : \A r \in ends : r <= q
  IN  IF longest <= Len(s) THEN longest ELSE Len(s)

\* C9 as amended: the span starts after the header, its optional colon and
\* all the whitespace around it (line breaks too), holds one character at
\* least, and ends at the first double line-break, "nutrition" or end of
\* text that comes after its first character; the result is made of the
\* pieces of that span, in their order, and is empty when nothing follows
\* the word "ingredient".
C9_SpanStartsAfterBlanks ==
  (calls.parse > 0 /\ C9_HasHeader(StrLower(extracted_text))) =>
    LET s == StrLower(extracted_text)
        g == C9_SpanStart(s)
    IN  IF C9_AfterFirstHeaderWord(s) > Len(s) THEN ingredient_names = <<>>
        ELSE ingredient_names =
               C9_Pieces(SubSeq(s, g, C9_FirstTerminator(s, g + 1) - 1))

\* A list that starts after an empty line and ends at the next one, with
\* other pieces after it.
C9_Witness ==
  /\ calls.parse > 0
  /\ extracted_text =
       <<"i","n","g","r","e","d","i","e","n","t","s",":","\n","\n","S","a","l","t",","," ","a",
         "b",","," ","S","u","g","a","r","\n","\n","x","y","z",","," ","H","o","n","e","y">>
  /\ ingredient_names = << <<"s","a","l","t">>, <<"s","u","g","a","r">> >>

\* C10: a label line that gives a fact a decimal value, followed by the
\* fact's unit, maps the fact's key to the whole decimal string, for each of
\* the ten facts.
C10_DecimalCapturedInFull ==
  calls.extract > 0 =>
    \A k \in 1..Len(patterns) :
      \A sep \in FactSeparators, value \in DecimalValues, gap \in FactGaps :
        extracted_text = LabelLine(k, sep, value, gap) =>
          /\ patterns[k].key \in DOMAIN nutritional_info
          /\ nutritional_info[patterns[k].key] = value

\* p occurs in s.
C11_IsSubstring(p, s) ==
  \E i \in 0..(Len(s) - Len(p)) : SubSeq(s, i + 1, i + Len(p)) = p

\* The entries whose key is in the lowercased, trimmed token or holds it,
\* by their place in SAMPLE_INGREDIENTS.
C11_MatchingEntries(ingredient_name) ==
  {k \in 1..Len(SAMPLE_INGREDIENTS) :
     \/ C11_IsSubstring(SAMPLE_INGREDIENTS[k].key, IngredientLower(ingredient_name))
     \/ C11_IsSubstring(IngredientLower(ingredient_name), SAMPLE_INGREDIENTS[k].key)}

\* C11: in the lookup in the sample data a token matches an entry exactly
\* when the lowercased, trimmed token contains the entry's key or the key
\* contains the token; a token that no entry matches is unknown, and a token
\* that several entries match gets the verdict of the one that comes first
\* in SAMPLE_INGREDIENTS.
C11_EarliestMatchWins ==
  \A i \in 1..Len(analyzed_ingredients) :
    store_log[i] # "hit" =>
      LET matching == C11_MatchingEntries(ingredient_names[i])
      IN  IF matching = {}
          THEN analyzed_ingredients[i].confidence = CONF_UNKNOWN
          ELSE LET earliest == CHOOSE k \in matching : \A j \in matching : k <= j
                   entry == SAMPLE_INGREDIENTS[earliest]
               IN  /\ analyzed_ingredients[i].confidence = CONF_FALLBACK
                   /\ analyzed_ingredients[i].name = entry.name
                   /\ analyzed_ingredients[i].risk_level = entry.risk_level
                   /\ analyzed_ingredients[i].description = entry.description
                   /\ analyzed_ingredients[i].banned_in =
                        IF "banned_in" \in DOMAIN entry THEN entry.banned_in
                        ELSE EmptyDict

\* "sugar water", which holds the keys of the first two entries, classified
\* from the sample data as Water.
C11_Witness ==
  /\ pc = "returned"
  /\ ingredient_names = << <<"s","u","g","a","r"," ","w","a","t","e","r">> >>
  /\ store_log[1] # "hit"
  /\ {1, 2} \subseteq C11_MatchingEntries(ingredient_names[1])
  /\ analyzed_ingredients[1].name = <<"W","a","t","e","r">>
  /\ analyzed_ingredients[1].confidence = CONF_FALLBACK

\* "oil", which is a part of three keys, classified from the sample data
\* as Olive Oil.
C11_WitnessPartOfKeys ==
  /\ pc = "returned"
  /\ ingredient_names = << <<"o","i","l">> >>
  /\ store_log[1] # "hit"
  /\ C11_MatchingEntries(ingredient_names[1]) = {8, 11, 26}
  /\ analyzed_ingredients[1].name = SAMPLE_INGREDIENTS[8].name

\* Some entry of the sample data matches the token.
C12_FallbackMatches(ingredient_name) ==
  \E k \in 1..Len(SAMPLE_INGREDIENTS) :
    KeyMatches(SAMPLE_INGREDIENTS[k].key, IngredientLower(ingredient_name))

\* The document the collection gives for the token, if it gives one.
C12_Stored(ingredient_name) ==
  find_one(ingredients, IngredientLower(ingredient_name))

\* C12: the confidence of every verdict tells where the verdict comes from.
\* It is 0.95 exactly when the database query for the token gave a document,
\* which takes a handle and a query that did not raise, and then the verdict
\* holds the document's fields whatever the sample data has; 0.85 exactly
\* when the database pass gave nothing and the sample data matched; 0.3
\* exactly when both missed, and then the risk level is safe and the
\* description the fixed one.  There is no other confidence, and a query that
\* raised leaves the queries and the verdicts of the later tokens as they are
\* without it.
C12_ConfidenceTellsProvenance ==
  \A i \in 1..Len(analyzed_ingredients) :
    LET verdict == analyzed_ingredients[i]
        token == ingredient_names[i]
        stored == C12_Stored(token)
        db_hit == db # "None" /\ store_log[i] # "raised" /\ stored # <<>>
    IN  /\ verdict.confidence \in {CONF_DB, CONF_FALLBACK, CONF_UNKNOWN}
        /\ store_log[i] = "absent" <=> db = "None"
        /\ store_log[i] = "hit" <=> db_hit
        /\ verdict.confidence = CONF_DB <=> db_hit
        /\ db_hit =>
             /\ verdict.name = stored[1].name
             /\ verdict.risk_level = stored[1].risk_level
             /\ verdict.description = stored[1].description
             /\ verdict.banned_in = stored[1].banned_in
             /\ verdict.sources = stored[1].sources
        /\ verdict.confidence = CONF_FALLBACK <=>
             (~db_hit /\ C12_FallbackMatches(token))
        /\ verdict.confidence = CONF_UNKNOWN <=>
             (~db_hit /\ ~C12_FallbackMatches(token))
        /\ verdict.confidence = CONF_UNKNOWN =>
             /\ verdict.risk_level = "safe"
             /\ verdict.description =
                  "Ingredient not found in database. Generally considered safe."

\* A returned list with the three confidences: a key whose query raised,
\* then a token that only the database matches, then an unknown one.
C12_Witness ==
  /\ pc = "returned"
  /\ store_log = <<"raised", "hit", "miss">>
  /\ C12_FallbackMatches(ingredient_names[1])
  /\ C12_Stored(ingredient_names[1]) # <<>>
  /\ ~C12_FallbackMatches(ingredient_names[2])
  /\ analyzed_ingredients[1].confidence = CONF_FALLBACK
  /\ analyzed_ingredients[2].confidence = CONF_DB
  /\ analyzed_ingredients[3].confidence = CONF_UNKNOWN

====
